---------------------------- MODULE Spec2Model ----------------------------
(***************************************************************************)
(* A model of pypfopt/expected_returns.py: the price <-> return            *)
(* transforms, the three estimators of annualised expected returns and the *)
(* dispatcher that selects among them.                                     *)
(*                                                                         *)
(* Floating point numbers are modelled by exact rationals.  A logarithm,   *)
(* an exponential or a fractional power of a rational is kept in symbolic  *)
(* form, so that "equal within tolerance" becomes exact equality.          *)
(***************************************************************************)
EXTENDS Integers, Sequences, FiniteSets, TLC

(***************************************************************************)
(* Bounds of the model.                                                    *)
(***************************************************************************)
\* the largest number of dates (rows) of a caller's table
MaxRows == 3

(***************************************************************************)
(* Numbers.  A cell of a table is a record [k, n, d]:                      *)
(*   k = "num": the rational n/d  (d > 0, lowest terms)                    *)
(*   k = "nan": a missing value (NaN in pandas, null in Spark)             *)
(*   k = "ln" : the natural logarithm of the rational n/d, n/d # 1         *)
(*   k = "exp": e raised to the rational n/d, n/d # 0                      *)
(***************************************************************************)
Abs(x) == IF x < 0 THEN -x ELSE x

RECURSIVE GCD(_, _)
GCD(a, b) == IF b = 0 THEN a ELSE GCD(b, a % b)

Rat(n, d) ==
    LET g == GCD(Abs(n), Abs(d))
        s == IF d < 0 THEN -1 ELSE 1
    IN  [k |-> "num", n |-> (s * n) \div g, d |-> (s * d) \div g]

Int2Rat(i) == [k |-> "num", n |-> i, d |-> 1]
Zero == Int2Rat(0)
One == Int2Rat(1)
NaN == [k |-> "nan", n |-> 0, d |-> 1]

IsNum(x) == x.k = "num"
IsNaN(x) == x.k = "nan"

\* x + y, x - y, x * y, x / y on floats: a missing operand gives a missing result
Add(x, y) ==
    IF IsNaN(x) \/ IsNaN(y) THEN NaN
    ELSE LET l == (x.d \div GCD(x.d, y.d)) * y.d
         IN  Rat(x.n * (l \div x.d) + y.n * (l \div y.d), l)

Neg(x) == IF IsNaN(x) THEN NaN ELSE [k |-> "num", n |-> -x.n, d |-> x.d]

Sub(x, y) == Add(x, Neg(y))

Mul(x, y) ==
    IF IsNaN(x) \/ IsNaN(y) THEN NaN
    ELSE LET g1 == GCD(Abs(x.n), y.d)
             g2 == GCD(Abs(y.n), x.d)
         IN  Rat((x.n \div g1) * (y.n \div g2), (x.d \div g2) * (y.d \div g1))

\* 0/0 is NaN; no other division by zero arises from positive prices
Div(x, y) ==
    IF IsNaN(x) \/ IsNaN(y) \/ y.n = 0 THEN NaN
    ELSE Mul(x, Rat(y.d, y.n))

\* a/b <= c/d for b, d > 0, by the integer parts and then the reciprocals
\* of the fractional parts, so that no product is formed
RECURSIVE FracLeq(_, _, _, _)
FracLeq(a, b, c, d) ==
    IF a \div b # c \div d THEN a \div b < c \div d
    ELSE IF a % b = 0 THEN TRUE
    ELSE IF c % d = 0 THEN FALSE
    ELSE FracLeq(d, c % d, b, a % b)

Leq(x, y) == FracLeq(x.n, x.d, y.n, y.d)

RECURSIVE IntPow(_, _)
IntPow(b, e) == IF e = 0 THEN 1 ELSE b * IntPow(b, e - 1)

\* x ** e for a natural number e
RatPow(x, e) == [k |-> "num", n |-> IntPow(x.n, e), d |-> IntPow(x.d, e)]

\* numpy.log / pyspark.sql.functions.log of a positive rational
Log(x) ==
    IF IsNaN(x) \/ x.n <= 0 THEN NaN
    ELSE IF x = One THEN Zero
    ELSE [k |-> "ln", n |-> x.n, d |-> x.d]

\* numpy.exp of a number or of a logarithm
Exp(x) ==
    CASE x.k = "nan" -> NaN
      [] x.k = "ln" -> [k |-> "num", n |-> x.n, d |-> x.d]
      [] x.k = "num" -> IF x.n = 0 THEN One ELSE [k |-> "exp", n |-> x.n, d |-> x.d]

\* the product of two cells of a frame of pseudo-price factors
CellMul(x, y) ==
    CASE IsNaN(x) \/ IsNaN(y) -> NaN
      [] IsNum(x) /\ IsNum(y) -> Mul(x, y)
      [] x.k = "exp" /\ y.k = "exp" ->
            LET s == Add(Rat(x.n, x.d), Rat(y.n, y.d))
            IN  Exp(s)
      [] x.k = "exp" /\ y = One -> x
      [] x = One /\ y.k = "exp" -> y

(***************************************************************************)
(* Sequences.                                                              *)
(***************************************************************************)
RECURSIVE SeqSum(_)
SeqSum(s) == IF s = <<>> THEN Zero ELSE Add(Head(s), SeqSum(Tail(s)))

RECURSIVE SeqProd(_)
SeqProd(s) == IF s = <<>> THEN One ELSE Mul(Head(s), SeqProd(Tail(s)))

RECURSIVE Filter(_, _)
Filter(s, keep) ==
    IF s = <<>> THEN <<>>
    ELSE IF keep[1] THEN <<Head(s)>> \o Filter(Tail(s), Tail(keep))
    ELSE Filter(Tail(s), Tail(keep))

Range(s) == {s[i] : i \in 1..Len(s)}

\* the position of label c in the sequence of labels cols (0 when absent)
IndexOf(cols, c) ==
    IF c \in Range(cols) THEN CHOOSE i \in 1..Len(cols) : cols[i] = c ELSE 0

(***************************************************************************)
(* Tables.  A table is a record                                            *)
(*   [kind, columns, index, data]                                          *)
(* kind = "pandas": an in-memory frame; index is the sequence of dates of  *)
(*   its rows, columns the sequence of column labels, data[t][c] the cell  *)
(*   of row t and column c.                                                *)
(* kind = "spark": a distributed frame; it has no index (index = <<>>),    *)
(*   its rows are in no particular order, and the date of a row, if any,   *)
(*   is the cell of its "date_index" column.                               *)
(* kind = "none": Python's None, for an omitted market table.              *)
(***************************************************************************)
None == [kind |-> "none", columns |-> <<>>, index |-> <<>>, data |-> <<>>]

NRows(df) == Len(df.data)
NCols(df) == Len(df.columns)

\* the column labelled c, as a sequence of cells in row order
Column(df, c) == [t \in 1..NRows(df) |-> df.data[t][IndexOf(df.columns, c)]]

\* the outcome of a call: a returned value, or a raised exception
Returned(v) == [exc |-> "none", val |-> v]
Raised(e) == [exc |-> e, val |-> <<>>]

(***************************************************************************)
(* pandas operations used by the module.                                   *)
(***************************************************************************)
\* DataFrame.pct_change(): data / data.shift(1) - 1
pct_change(df) ==
    [df EXCEPT !.data =
        [t \in 1..NRows(df) |->
            [c \in 1..NCols(df) |->
                IF t = 1 THEN NaN
                ELSE Sub(Div(df.data[t][c], df.data[t - 1][c]), One)]]]

\* DataFrame.dropna(how="all"): drops the rows whose cells are all missing
dropna_all(df) ==
    LET keep == [t \in 1..NRows(df) |->
                    \E c \in 1..NCols(df) : ~IsNaN(df.data[t][c])]
    IN  [df EXCEPT !.data = Filter(df.data, keep),
                   !.index = Filter(df.index, keep)]

Log1p(x) == Log(Add(One, x))
Plus1(x) == CASE x.k \in {"num", "nan"} -> Add(One, x)

\* elementwise numpy.log(1 + df), numpy.exp(df) and 1 + df
log1p_frame(df) ==
    [df EXCEPT !.data =
        [t \in 1..NRows(df) |-> [c \in 1..NCols(df) |-> Log1p(df.data[t][c])]]]

exp_frame(df) ==
    [df EXCEPT !.data =
        [t \in 1..NRows(df) |-> [c \in 1..NCols(df) |-> Exp(df.data[t][c])]]]

plus1_frame(df) ==
    [df EXCEPT !.data =
        [t \in 1..NRows(df) |-> [c \in 1..NCols(df) |-> Plus1(df.data[t][c])]]]

\* the product of the cells of s that are not missing
RECURSIVE NanProd(_)
NanProd(s) ==
    IF s = <<>> THEN One
    ELSE IF IsNaN(s[Len(s)]) THEN NanProd(SubSeq(s, 1, Len(s) - 1))
    ELSE CellMul(NanProd(SubSeq(s, 1, Len(s) - 1)), s[Len(s)])

\* DataFrame.cumprod(): the running product down each column, skipping
\* missing cells (which stay missing)
cumprod(df) ==
    [df EXCEPT !.data =
        [t \in 1..NRows(df) |->
            [c \in 1..NCols(df) |->
                IF IsNaN(df.data[t][c]) THEN NaN
                ELSE NanProd([u \in 1..t |-> df.data[u][c]])]]]

(***************************************************************************)
(* Spark operations used by the module.                                    *)
(***************************************************************************)
DateOf(df, t) == df.data[t][IndexOf(df.columns, "date_index")].n

\* a variant of SparkLag over a window that is not ordered by date: the
\* cell of col in the row stored before row t
SparkLagUnordered(df, col, t) ==
    IF t = 1 THEN NaN ELSE df.data[t - 1][IndexOf(df.columns, col)]

\* F.lag(df[col]).over(Window.orderBy("date_index")) at row t: the cell of
\* col in the row that precedes row t in date order, null for the first one
SparkLag(df, col, t) ==
    LET before == {u \in 1..NRows(df) : DateOf(df, u) < DateOf(df, t)}
    IN  IF before = {} THEN NaN
        ELSE LET p == CHOOSE u \in before :
                        \A v \in before : DateOf(df, v) <= DateOf(df, u)
             IN  df.data[p][IndexOf(df.columns, col)]

\* one turn of the loop over price_cols: col becomes (col - lag) / lag,
\* and its logarithm plus one when log_returns
SparkReturnColumn(df, col, log_returns) ==
    LET j == IndexOf(df.columns, col)
        r(t) == LET lag == SparkLag(df, col, t)
                IN  Div(Sub(df.data[t][j], lag), lag)
    IN  [df EXCEPT !.data =
            [t \in 1..NRows(df) |->
                [c \in 1..NCols(df) |->
                    IF c # j THEN df.data[t][c]
                    ELSE IF log_returns THEN Log1p(r(t)) ELSE r(t)]]]

RECURSIVE SparkReturns(_, _, _)
SparkReturns(df, price_cols, log_returns) ==
    IF price_cols = <<>> THEN df
    ELSE SparkReturns(SparkReturnColumn(df, Head(price_cols), log_returns),
                      Tail(price_cols), log_returns)

(***************************************************************************)
(* returns_from_prices(prices, log_returns, is_spark)                      *)
(***************************************************************************)
RECURSIVE Remove(_, _)
Remove(s, x) ==
    IF s = <<>> THEN <<>>
    ELSE IF Head(s) = x THEN Tail(s)
    ELSE <<Head(s)>> \o Remove(Tail(s), x)

\* a variant of returns_from_prices without the check of the table's type:
\* an in-memory table goes on to the distributed path, where its column
\* index has no remove method
ReturnsFromPricesWithoutTypeCheck(prices, log_returns, is_spark) ==
    IF is_spark /\ prices.kind # "spark"
    THEN Raised("AttributeError")
    ELSE IF is_spark /\ "date_index" \notin Range(prices.columns)
    THEN Raised("RuntimeError")
    ELSE IF ~is_spark
    THEN IF prices.kind # "pandas"
         THEN Raised("AttributeError")
         ELSE IF log_returns
         THEN Returned(dropna_all(log1p_frame(pct_change(prices))))
         ELSE Returned(dropna_all(pct_change(prices)))
    ELSE Returned(SparkReturns(prices, Remove(prices.columns, "date_index"),
                               log_returns))

\* a variant of returns_from_prices that checks the table's type whatever
\* is_spark is: a Spark table without is_spark is refused as well
ReturnsFromPricesCheckingBothWays(prices, log_returns, is_spark) ==
    IF is_spark # (prices.kind = "spark")
    THEN Raised("RuntimeError")
    ELSE IF is_spark /\ "date_index" \notin Range(prices.columns)
    THEN Raised("RuntimeError")
    ELSE IF ~is_spark
    THEN IF log_returns
         THEN Returned(dropna_all(log1p_frame(pct_change(prices))))
         ELSE Returned(dropna_all(pct_change(prices)))
    ELSE Returned(SparkReturns(prices, Remove(prices.columns, "date_index"),
                               log_returns))

returns_from_prices(prices, log_returns, is_spark) ==
    IF is_spark /\ prices.kind # "spark"
    THEN Raised("RuntimeError")
    ELSE IF is_spark /\ prices.kind = "spark"
            /\ "date_index" \notin Range(prices.columns)
    THEN Raised("RuntimeError")
    ELSE IF ~is_spark
    THEN IF prices.kind # "pandas"
         \* a Spark table has no pct_change method
         THEN Raised("AttributeError")
         ELSE IF log_returns
         THEN Returned(dropna_all(log1p_frame(pct_change(prices))))
         ELSE Returned(dropna_all(pct_change(prices)))
    ELSE Returned(SparkReturns(prices, Remove(prices.columns, "date_index"),
                               log_returns))

(***************************************************************************)
(* prices_from_returns(returns, log_returns)                               *)
(***************************************************************************)
\* ret.iloc[0] = 1
SetFirstRow(df) ==
    [df EXCEPT !.data =
        [t \in 1..NRows(df) |->
            [c \in 1..NCols(df) |-> IF t = 1 THEN One ELSE df.data[t][c]]]]

prices_from_returns(returns, log_returns) ==
    LET ret == IF log_returns THEN exp_frame(returns)
               ELSE plus1_frame(returns)
    IN  IF NRows(returns) = 0 THEN Raised("IndexError")
        ELSE Returned(cumprod(SetFirstRow(ret)))

(***************************************************************************)
(* Annualised values.  An entry of a returned vector is a record           *)
(*   [c0, c1, base, e, c]  standing for  c0 + c1 * base ** (e / c)         *)
(* with c0, c1 and base rationals and e/c a fraction in lowest terms: the  *)
(* fractional power of the compounding rule is kept symbolic.  A plain     *)
(* number q is Num(q), and a missing value is Num(NaN).                    *)
(***************************************************************************)
Num(q) == [c0 |-> q, c1 |-> Zero, base |-> One, e |-> 1, c |-> 1]

\* a variant of Power that forgets the count: x ** f
PowerWithoutCount(x, f, cnt) ==
    IF IsNaN(x) THEN Num(NaN)
    ELSE IF f = 1 \/ x = One \/ x = Zero THEN Num(x)
    ELSE [c0 |-> Zero, c1 |-> One, base |-> x, e |-> f, c |-> 1]

\* x ** (f / cnt) for a rational x >= 0 and naturals f, cnt > 0
Power(x, f, cnt) ==
    LET g == GCD(f, cnt)
        e == f \div g
        c == cnt \div g
    IN  IF IsNaN(x) THEN Num(NaN)
        ELSE IF (e = 1 /\ c = 1) \/ x = One \/ x = Zero THEN Num(x)
        ELSE IF x.n < 0 /\ c # 1 THEN Num(NaN)
        ELSE [c0 |-> Zero, c1 |-> One, base |-> x, e |-> e, c |-> c]

\* v + q and q * v for an annualised value v and a rational q
Shift(v, q) == [v EXCEPT !.c0 = Add(v.c0, q)]

Scale(v, q) ==
    IF IsNaN(q) \/ IsNaN(v.c0) THEN Num(NaN)
    ELSE IF Mul(v.c1, q) = Zero THEN Num(Mul(v.c0, q))
    ELSE [v EXCEPT !.c0 = Mul(v.c0, q), !.c1 = Mul(v.c1, q)]

(***************************************************************************)
(* Reductions of a column (a sequence of cells), skipping missing cells.   *)
(***************************************************************************)
NotNaN(s) == {i \in 1..Len(s) : ~IsNaN(s[i])}

\* Series.count()
count(s) == Cardinality(NotNaN(s))

RECURSIVE SumOver(_, _)
SumOver(s, I) ==
    IF I = {} THEN Zero
    ELSE LET i == CHOOSE j \in I : TRUE
         IN  Add(s[i], SumOver(s, I \ {i}))

\* Series.mean()
mean(s) == Div(SumOver(s, NotNaN(s)), Int2Rat(count(s)))

\* (1 + Series).prod()
prod1p(s) == NanProd([i \in 1..Len(s) |-> Plus1(s[i])])

\* the annualisation shared by the historical mean and the CAPM market
\* return: prod(1 + r) ** (frequency / count) - 1, or mean(r) * frequency
Annualise(s, compounding, frequency) ==
    IF compounding
    THEN Shift(Power(prod1p(s), frequency, count(s)), Neg(One))
    ELSE Num(Mul(mean(s), Int2Rat(frequency)))

\* returns.ewm(span=span).mean().iloc[-1] of a column without missing
\* cells: the mean of the column with weight (1 - alpha) ** i on the cell
\* i rows before the last, alpha = 2 / (span + 1).  The weights are scaled
\* by (span + 1) ** (n - 1), which makes them the integers
\* (span - 1) ** i * (span + 1) ** (n - 1 - i).
ewm_mean_last(s, span) ==
    LET n == Len(s)
        w(i) == IntPow(span - 1, i) * IntPow(span + 1, n - 1 - i)
        num == SeqSum([i \in 1..n |-> Mul(Int2Rat(w(n - i)), s[i])])
        den == SeqSum([i \in 1..n |-> Int2Rat(w(n - i))])
    IN  Div(num, den)

(***************************************************************************)
(* Estimators, on in-memory frames (an input that is no frame is made one  *)
(* with a warning, lines 150-152).  The outcome of a call is a record      *)
(*   [ret, prices, market_prices]                                          *)
(* ret: what the call returns or raises; prices and market_prices: the     *)
(* caller's two table objects as the call leaves them; calls: the          *)
(* estimators that were called, in order.                                  *)
(***************************************************************************)
Series(index, values) == [index |-> index, values |-> values]

Outcome(ret, prices, market_prices) ==
    [ret |-> ret, prices |-> prices, market_prices |-> market_prices,
     calls |-> <<>>]

\* the outcome o of a call of the estimator called name
Enter(name, o) == [o EXCEPT !.calls = <<name>> \o @]

\* a variant of mean_historical_return that takes its input for prices
\* whatever returns_data is
MeanHistoricalReturnOfPricesOnly(prices, returns_data, compounding, frequency) ==
    LET returns == returns_from_prices(prices, FALSE, FALSE).val
    IN  Returned(Series(returns.columns,
            [c \in 1..NCols(returns) |->
                Annualise(Column(returns, returns.columns[c]),
                          compounding, frequency)]))

mean_historical_return(prices, returns_data, compounding, frequency) ==
    LET returns == IF returns_data THEN prices
                   ELSE returns_from_prices(prices, FALSE, FALSE).val
    IN  Returned(Series(returns.columns,
            [c \in 1..NCols(returns) |->
                Annualise(Column(returns, returns.columns[c]),
                          compounding, frequency)]))

ema_historical_return(prices, returns_data, compounding, span, frequency) ==
    LET returns == IF returns_data THEN prices
                   ELSE returns_from_prices(prices, FALSE, FALSE).val
        last(c) == ewm_mean_last(Column(returns, returns.columns[c]), span)
    IN  Returned(Series(returns.columns,
            [c \in 1..NCols(returns) |->
                IF compounding
                THEN Shift(Power(Add(One, last(c)), frequency, 1), Neg(One))
                ELSE Num(Mul(last(c), Int2Rat(frequency)))]))

(***************************************************************************)
(* capm_return                                                             *)
(***************************************************************************)
\* DataFrame.mean(axis=1): the mean of each row
row_mean(df) == [t \in 1..NRows(df) |-> mean(df.data[t])]

\* df[label] = values: replaces the column in place, or appends it at the
\* right when the frame has no such column
set_column(df, label, values) ==
    LET j == IndexOf(df.columns, label)
    IN  IF j # 0
        THEN [df EXCEPT !.data =
                [t \in 1..NRows(df) |->
                    [c \in 1..NCols(df) |->
                        IF c = j THEN values[t] ELSE df.data[t][c]]]]
        ELSE [df EXCEPT !.columns = Append(df.columns, label),
                        !.data = [t \in 1..NRows(df) |->
                                    Append(df.data[t], values[t])]]

\* left.join(right, how="left"): every row of left, with the cells of the
\* row of right of the same date, missing when right has no such date
join_left(left, right) ==
    LET match(t) == {u \in 1..NRows(right) : right.index[u] = left.index[t]}
        cells(t) == IF match(t) = {}
                    THEN [c \in 1..NCols(right) |-> NaN]
                    ELSE right.data[CHOOSE u \in match(t) : TRUE]
    IN  [left EXCEPT !.columns = left.columns \o right.columns,
                     !.data = [t \in 1..NRows(left) |->
                                  left.data[t] \o cells(t)]]

\* an entry of DataFrame.cov(): the sample covariance (ddof = 1) of two
\* columns over the rows where neither is missing
cov(x, y) ==
    LET I == NotNaN(x) \cap NotNaN(y)
        n == Cardinality(I)
        mx == Div(SumOver(x, I), Int2Rat(n))
        my == Div(SumOver(y, I), Int2Rat(n))
        dev == [i \in 1..Len(x) |-> Mul(Sub(x[i], mx), Sub(y[i], my))]
    IN  IF n < 2 THEN NaN
        ELSE Div(SumOver(dev, I), Int2Rat(n - 1))

\* lines 265-279: betas from the covariance matrix, the market's mean
\* return, and the CAPM formula
capm_formula(returns, risk_free_rate, compounding, frequency) ==
    LET mkt == Column(returns, "mkt")
        assets == Remove(returns.columns, "mkt")
        betas == [a \in 1..Len(assets) |->
                    Div(cov(Column(returns, assets[a]), mkt), cov(mkt, mkt))]
        mkt_mean_ret == Annualise(mkt, compounding, frequency)
    IN  Series(assets,
            [a \in 1..Len(assets) |->
                Shift(Scale(Shift(mkt_mean_ret, Neg(risk_free_rate)),
                            betas[a]),
                      risk_free_rate)])

capm_return(prices, market_prices, returns_data, risk_free_rate, compounding, frequency) ==
    LET returns == IF returns_data THEN prices
                   ELSE returns_from_prices(prices, FALSE, FALSE).val
        market_returns ==
            IF returns_data \/ market_prices = None THEN market_prices
            ELSE returns_from_prices(market_prices, FALSE, FALSE).val
        \* returns["mkt"] = returns.mean(axis=1)
        with_mkt == set_column(returns, "mkt", row_mean(returns))
        \* market_returns.columns = ["mkt"]
        renamed == [market_returns EXCEPT !.columns = <<"mkt">>]
    IN  IF market_returns = None
        THEN Outcome(Returned(capm_formula(with_mkt, risk_free_rate,
                                           compounding, frequency)),
                     \* with returns_data, returns is the caller's table
                     IF returns_data THEN with_mkt ELSE prices,
                     market_prices)
        ELSE IF NCols(market_returns) # 1
        THEN Outcome(Raised("ValueError"), prices, market_prices)
        ELSE IF "mkt" \in Range(returns.columns)
        \* join: the columns overlap and no suffix is given
        THEN Outcome(Raised("ValueError"), prices,
                     IF returns_data THEN renamed ELSE market_prices)
        ELSE Outcome(Returned(capm_formula(join_left(returns, renamed),
                                  risk_free_rate, compounding, frequency)),
                     prices,
                     \* with returns_data, market_returns is the caller's
                     IF returns_data THEN renamed ELSE market_prices)

(***************************************************************************)
(* Keyword arguments.  kw.given is the set of keywords the caller passes;  *)
(* a keyword that is not given takes the default of the signature.         *)
(***************************************************************************)
Kw(given, returns_data, compounding, frequency, span, market_prices, risk_free_rate) ==
    [given |-> given, returns_data |-> returns_data,
     compounding |-> compounding, frequency |-> frequency, span |-> span,
     market_prices |-> market_prices, risk_free_rate |-> risk_free_rate]

NoKw == Kw({}, FALSE, FALSE, 0, 0, None, Zero)

\* defaults of the signatures
mean_frequency == 252
ema_span == 500
ema_frequency == 252
capm_frequency == 252
capm_risk_free_rate == Rat(1, 50)

returns_data_of(kw) == "returns_data" \in kw.given /\ kw.returns_data
compounding_of(kw) == "compounding" \notin kw.given \/ kw.compounding
frequency_of(kw, default) ==
    IF "frequency" \in kw.given THEN kw.frequency ELSE default
span_of(kw) == IF "span" \in kw.given THEN kw.span ELSE ema_span
market_prices_of(kw) ==
    IF "market_prices" \in kw.given THEN kw.market_prices ELSE None
risk_free_rate_of(kw) ==
    IF "risk_free_rate" \in kw.given THEN kw.risk_free_rate
    ELSE capm_risk_free_rate

\* a call f(prices, **kw) of each estimator: a keyword that the signature
\* does not have is a TypeError
call_mean_historical_return(prices, kw) ==
    Enter("mean_historical_return",
        IF ~(kw.given \subseteq {"returns_data", "compounding", "frequency"})
        THEN Outcome(Raised("TypeError"), prices, market_prices_of(kw))
        ELSE Outcome(mean_historical_return(prices, returns_data_of(kw),
                         compounding_of(kw), frequency_of(kw, mean_frequency)),
                     prices, market_prices_of(kw)))

call_ema_historical_return(prices, kw) ==
    Enter("ema_historical_return",
        IF ~(kw.given \subseteq {"returns_data", "compounding", "span", "frequency"})
        THEN Outcome(Raised("TypeError"), prices, market_prices_of(kw))
        ELSE Outcome(ema_historical_return(prices, returns_data_of(kw),
                         compounding_of(kw), span_of(kw),
                         frequency_of(kw, ema_frequency)),
                     prices, market_prices_of(kw)))

call_capm_return(prices, kw) ==
    Enter("capm_return",
        IF ~(kw.given \subseteq {"market_prices", "returns_data", "risk_free_rate",
                                 "compounding", "frequency"})
        THEN Outcome(Raised("TypeError"), prices, market_prices_of(kw))
        ELSE capm_return(prices, market_prices_of(kw), returns_data_of(kw),
                         risk_free_rate_of(kw), compounding_of(kw),
                         frequency_of(kw, capm_frequency)))

(***************************************************************************)
(* return_model(prices, method, **kwargs)                                  *)
(***************************************************************************)
\* a variant of return_model that also accepts the deprecated
\* "james_stein_shrinkage", as the historical mean
ReturnModelWithShrinkage(prices, method, kwargs) ==
    IF method \in {"mean_historical_return", "james_stein_shrinkage"}
    THEN call_mean_historical_return(prices, kwargs)
    ELSE IF method = "ema_historical_return"
    THEN call_ema_historical_return(prices, kwargs)
    ELSE IF method = "capm_return"
    THEN call_capm_return(prices, kwargs)
    ELSE Outcome(Raised("NotImplementedError"), prices,
                 market_prices_of(kwargs))

return_model(prices, method, kwargs) ==
    IF method = "mean_historical_return"
    THEN call_mean_historical_return(prices, kwargs)
    ELSE IF method = "ema_historical_return"
    THEN call_ema_historical_return(prices, kwargs)
    ELSE IF method = "capm_return"
    THEN call_capm_return(prices, kwargs)
    ELSE Outcome(Raised("NotImplementedError"), prices,
                 market_prices_of(kwargs))

(***************************************************************************)
(* The caller: the tables and arguments it passes.                         *)
(***************************************************************************)
\* the cells of a caller's table: positive, so that the table can be read
\* as prices as well as returns
Vals == {Rat(1, 10), Rat(1, 5)}

AssetLabels == <<"A", "B">>

\* a caller's table has one asset or two
AssetCounts == 1..Len(AssetLabels)

Frame(columns, index, data) ==
    [kind |-> "pandas", columns |-> columns, index |-> index, data |-> data]

\* the in-memory tables of a caller: dates 1..r in ascending order
Tables ==
    UNION {
        {Frame(SubSeq(AssetLabels, 1, a), [t \in 1..r |-> t], data) :
            data \in [1..r -> [1..a -> Vals]]} :
        a \in AssetCounts, r \in 2..MaxRows}

\* the example of the documentation: one asset at 100, 110, 121
ExampleTable ==
    Frame(<<"A">>, <<1, 2, 3>>,
          <<<<Int2Rat(100)>>, <<Int2Rat(110)>>, <<Int2Rat(121)>>>>)

\* the market tables a caller may pass with a table of r rows: one column
\* "SPY", on the same dates or on dates that run one day late
MarketPatterns == {<<1, 2, 1, 3>>, <<2, 1, 1, 2>>}

Markets(r) ==
    {Frame(<<"SPY">>, [t \in 1..r |-> t + late],
           [t \in 1..r |-> <<Rat(pattern[t], 10)>>]) :
        late \in {0, 1}, pattern \in MarketPatterns}

\* the same table as a Spark frame: with or without its "date_index"
\* column, its rows in ascending or descending order
Forms == {"pandas", "spark", "spark_descending", "spark_no_date_index"}

AsForm(df, form) ==
    LET dated == [t \in 1..NRows(df) |-> <<Int2Rat(df.index[t])>> \o df.data[t]]
    IN  CASE form = "pandas" -> df
          [] form = "spark" ->
                [kind |-> "spark", columns |-> <<"date_index">> \o df.columns,
                 index |-> <<>>, data |-> dated]
          [] form = "spark_descending" ->
                [kind |-> "spark", columns |-> <<"date_index">> \o df.columns,
                 index |-> <<>>,
                 data |-> [t \in 1..NRows(df) |-> dated[NRows(df) + 1 - t]]]
          [] form = "spark_no_date_index" ->
                [kind |-> "spark", columns |-> df.columns,
                 index |-> <<>>, data |-> df.data]

Freqs == {1, 2}
Spans == {2}
Rates == {Rat(1, 10)}
Methods == {"mean_historical_return", "ema_historical_return", "capm_return",
            "james_stein_shrinkage", "min_cov_determinant"}

MeanKws ==
    {NoKw} \cup
    {Kw({"returns_data", "compounding", "frequency"}, rd, co, fr, 0, None, Zero) :
        rd \in BOOLEAN, co \in BOOLEAN, fr \in Freqs}

EmaKws ==
    {NoKw} \cup
    {Kw({"returns_data", "compounding", "frequency", "span"},
        x[1], x[2], x[3], x[4], None, Zero) :
        x \in BOOLEAN \X BOOLEAN \X Freqs \X Spans}

CapmKws(r) ==
    {NoKw} \cup
    {Kw({"returns_data", "compounding", "frequency", "risk_free_rate"},
        x[1], x[2], x[3], 0, None, x[4]) :
        x \in BOOLEAN \X BOOLEAN \X Freqs \X Rates} \cup
    {Kw({"returns_data", "compounding", "frequency", "risk_free_rate",
         "market_prices"}, x[1], x[2], x[3], 0, x[5], x[4]) :
        x \in BOOLEAN \X BOOLEAN \X Freqs \X Rates \X Markets(r)}

\* the keyword arguments passed to return_model: those of any estimator,
\* whatever the method.  The default span of 500 is used on prices only:
\* on one more row of returns its weights need more than 32 bits.
ReturnModelKws(method, r) ==
    IF method = "ema_historical_return"
    THEN EmaKws \cup CapmKws(r)
    ELSE MeanKws \cup EmaKws \cup CapmKws(r)

(***************************************************************************)
(* State.                                                                  *)
(***************************************************************************)
VARIABLES
    original, \* the caller's table of assets as the caller built it
    prices,   \* the caller's table of assets, as the calls so far left it
    market,   \* the caller's market table of the last call, as it left it
    pc,       \* "idle", or "returned" when the last call's outcome is held
    call,     \* the last call: its function and arguments
    arg,      \* the first argument of the last call, as it was passed
    result,   \* what the last call returned or raised
    calls     \* the estimators the last call called

vars == <<original, prices, market, pc, call, arg, result, calls>>

Call(op, log_returns, is_spark, method, kw, form) ==
    [op |-> op, log_returns |-> log_returns, is_spark |-> is_spark,
     method |-> method, kw |-> kw, form |-> form]

NoCall == Call("none", FALSE, FALSE, "", NoKw, "")

Init ==
    /\ original \in Tables \cup {ExampleTable}
    /\ prices = original
    /\ market = None
    /\ pc = "idle"
    /\ call = NoCall
    /\ arg = None
    /\ result = Returned(<<>>)
    /\ calls = <<>>

\* returns_from_prices(prices, log_returns, is_spark) on the caller's table
\* in one of its forms
ReturnsFromPrices ==
    /\ pc = "idle"
    /\ \E log_returns \in BOOLEAN, is_spark \in BOOLEAN, form \in Forms :
        /\ call' = Call("returns_from_prices", log_returns, is_spark, "", NoKw, form)
        /\ arg' = AsForm(prices, form)
        /\ result' = returns_from_prices(AsForm(prices, form), log_returns, is_spark)
    /\ pc' = "returned"
    /\ calls' = <<>>
    /\ UNCHANGED <<original, prices, market>>

\* prices_from_returns(returns, log_returns) on the caller's table
PricesFromReturns ==
    /\ pc = "idle"
    /\ \E log_returns \in BOOLEAN :
        /\ call' = Call("prices_from_returns", log_returns, FALSE, "", NoKw, "pandas")
        /\ arg' = prices
        /\ result' = prices_from_returns(prices, log_returns)
    /\ pc' = "returned"
    /\ calls' = <<>>
    /\ UNCHANGED <<original, prices, market>>

\* prices_from_returns on the returns that returns_from_prices has just
\* returned, with the same log_returns: the round trip
RoundTrip ==
    /\ pc = "returned"
    /\ call.op = "returns_from_prices"
    /\ result.exc = "none"
    /\ result.val.kind = "pandas"
    /\ call' = Call("round_trip", call.log_returns, FALSE, "", NoKw, "pandas")
    /\ arg' = result.val
    /\ result' = prices_from_returns(result.val, call.log_returns)
    /\ UNCHANGED <<original, prices, market, pc, calls>>

\* the state after an estimator call with outcome o
Estimated(op, method, kw, o) ==
    /\ call' = Call(op, FALSE, FALSE, method, kw, "pandas")
    /\ arg' = prices
    /\ result' = o.ret
    /\ prices' = o.prices
    /\ market' = o.market_prices
    /\ calls' = o.calls
    /\ pc' = "returned"
    /\ UNCHANGED original

MeanHistoricalReturn ==
    /\ pc = "idle"
    /\ \E kw \in MeanKws :
        Estimated("mean_historical_return", "", kw,
                  call_mean_historical_return(prices, kw))

EmaHistoricalReturn ==
    /\ pc = "idle"
    /\ \E kw \in EmaKws :
        Estimated("ema_historical_return", "", kw,
                  call_ema_historical_return(prices, kw))

CapmReturn ==
    /\ pc = "idle"
    /\ \E kw \in CapmKws(NRows(prices)) :
        Estimated("capm_return", "", kw, call_capm_return(prices, kw))

ReturnModel ==
    /\ pc = "idle"
    /\ \E method \in Methods :
        \E kw \in ReturnModelKws(method, NRows(prices)) :
            Estimated("return_model", method, kw,
                      return_model(prices, method, kw))

\* the caller takes the outcome of the call and is ready for the next one
Consume ==
    /\ pc = "returned"
    /\ pc' = "idle"
    /\ call' = NoCall
    /\ arg' = None
    /\ market' = None
    /\ result' = Returned(<<>>)
    /\ calls' = <<>>
    /\ UNCHANGED <<original, prices>>

Next ==
    \/ ReturnsFromPrices
    \/ PricesFromReturns
    \/ RoundTrip
    \/ MeanHistoricalReturn
    \/ EmaHistoricalReturn
    \/ CapmReturn
    \/ ReturnModel
    \/ Consume

Spec == Init /\ [][Next]_vars

(***************************************************************************)
(* Properties of the transforms.                                           *)
(***************************************************************************)
Did(op) == pc = "returned" /\ call.op = op

\* C1: the round trip prices_from_returns(returns_from_prices(P, log), log)
\* has one row per date of P, and its cell for asset a at date t is
\* P[t][a] / P[1][a], for both values of log.
RoundTripRestoresPriceRatios ==
    Did("round_trip") =>
        /\ result.exc = "none"
        /\ result.val.index = prices.index
        /\ result.val.columns = prices.columns
        /\ \A t \in 1..NRows(prices) : \A c \in 1..NCols(prices) :
              result.val.data[t][c] = Div(prices.data[t][c], prices.data[1][c])

\* what the round trip does instead: the first date is lost, and the
\* pseudo-prices are relative to the second date of P
RoundTripLosesFirstDate ==
    Did("round_trip") =>
        /\ result.exc = "none"
        /\ result.val.index = Tail(prices.index)
        /\ \A t \in 2..NRows(prices) : \A c \in 1..NCols(prices) :
              result.val.data[t - 1][c] = Div(prices.data[t][c], prices.data[2][c])

\* the two misuses of distributed mode that returns_from_prices checks
NotDistributed == arg.kind # "spark"
NoDateIndex == arg.kind = "spark" /\ "date_index" \notin Range(arg.columns)

\* C2, as claimed: with is_spark, returns_from_prices raises InputError
\* when the table is not a Spark table or has no "date_index" column, and
\* in no other case.
DistributedMisuseRaisesInputError ==
    (Did("returns_from_prices") /\ call.is_spark) =>
        (result.exc = "InputError" <=> (NotDistributed \/ NoDateIndex))

\* C2, amended: with is_spark, returns_from_prices raises RuntimeError,
\* and returns nothing, when the table is not a Spark table or has no
\* "date_index" column, and in no other case.
DistributedMisuseRaisesRuntimeError ==
    (Did("returns_from_prices") /\ call.is_spark) =>
        /\ result.exc = "RuntimeError" <=> (NotDistributed \/ NoDateIndex)
        /\ result.exc = "none" <=> ~(NotDistributed \/ NoDateIndex)

\* a Spark table without "date_index" was passed with is_spark, and refused
DistributedMisuseWitness ==
    /\ Did("returns_from_prices")
    /\ call.is_spark
    /\ NoDateIndex
    /\ result = Raised("RuntimeError")

\* C7, as claimed: a table of the wrong kind raises the same configuration
\* error in both directions: a table that is not a Spark table with
\* is_spark, and a Spark table without is_spark.
WrongKindRaisesConfigurationErrorBothWays ==
    Did("returns_from_prices") =>
        /\ (call.is_spark /\ arg.kind # "spark") => result.exc = "RuntimeError"
        /\ (~call.is_spark /\ arg.kind = "spark") => result.exc = "RuntimeError"

\* C7, amended: a table that is not a Spark table raises the configuration
\* error (RuntimeError) with is_spark; a Spark table without is_spark is
\* not checked: the call fails, before any return is computed, with the
\* AttributeError of the in-memory path and not with the configuration
\* error.
WrongKindIsCheckedOneWay ==
    Did("returns_from_prices") =>
        /\ (call.is_spark /\ arg.kind # "spark") =>
                result = Raised("RuntimeError")
        /\ (~call.is_spark /\ arg.kind = "spark") =>
                result = Raised("AttributeError")

\* a Spark table with "date_index" was passed without is_spark, and the
\* call failed on the in-memory path
WrongKindWitness ==
    /\ Did("returns_from_prices")
    /\ ~call.is_spark
    /\ arg.kind = "spark"
    /\ "date_index" \in Range(arg.columns)
    /\ result.exc = "AttributeError"

\* the cells <<date, asset, value>> of a table of returns
Cells(df) ==
    IF df.kind = "pandas"
    THEN {<<df.index[t], df.columns[c], df.data[t][c]>> :
            t \in 1..NRows(df), c \in 1..NCols(df)}
    ELSE {<<DateOf(df, t), df.columns[c], df.data[t][c]>> :
            t \in 1..NRows(df),
            c \in {j \in 1..NCols(df) : df.columns[j] # "date_index"}}

\* the returns of the caller's table on the in-memory path
InMemoryReturns == returns_from_prices(prices, call.log_returns, FALSE).val

DistributedReturned ==
    /\ Did("returns_from_prices")
    /\ call.is_spark
    /\ result.exc = "none"

\* C4, as claimed: the distributed and the in-memory path give the same
\* set of (date, asset) cells with equal values, for both values of
\* log_returns.
DistributedEqualsInMemory ==
    DistributedReturned => Cells(result.val) = Cells(InMemoryReturns)

\* C4, amended: the two paths give equal values at every (date, asset)
\* cell of the in-memory result, for both values of log_returns; the
\* distributed result has in addition the first date, which the in-memory
\* result drops, with a missing value for every asset.
DistributedEqualsInMemoryAfterFirstDate ==
    DistributedReturned =>
        LET first == prices.index[1]
        IN  /\ {x \in Cells(result.val) : x[1] # first} = Cells(InMemoryReturns)
            /\ {x \in Cells(result.val) : x[1] = first}
                 = {<<first, prices.columns[c], NaN>> : c \in 1..NCols(prices)}

\* the distributed path returned log returns of two assets from a table
\* whose rows are stored in descending date order
DistributedWitness ==
    /\ DistributedReturned
    /\ call.log_returns
    /\ call.form = "spark_descending"
    /\ NCols(prices) = 2
    /\ \E x \in Cells(result.val) : x[3].k = "ln"
    /\ \E x \in Cells(result.val) : x[3] = Zero

(***************************************************************************)
(* Properties of the dispatcher and of the estimators.                     *)
(***************************************************************************)
Estimators == {"mean_historical_return", "ema_historical_return", "capm_return"}

\* the last call was to an estimator, directly or through return_model
Estimation == pc = "returned" /\ call.op \in Estimators \cup {"return_model"}

\* C3: return_model returns exactly what the estimator named by method
\* returns for the same prices and keyword arguments, and for every other
\* method it raises NotImplementedError without calling any estimator.
ReturnModelDispatches ==
    Did("return_model") =>
        LET direct ==
              CASE call.method = "mean_historical_return" ->
                      call_mean_historical_return(arg, call.kw)
                [] call.method = "ema_historical_return" ->
                      call_ema_historical_return(arg, call.kw)
                [] call.method = "capm_return" ->
                      call_capm_return(arg, call.kw)
                [] OTHER -> Outcome(Raised("NotImplementedError"), arg,
                                    market_prices_of(call.kw))
        IN  /\ result = direct.ret
            /\ calls = direct.calls
            /\ call.method \in Estimators => calls = <<call.method>>
            /\ call.method \notin Estimators =>
                  result = Raised("NotImplementedError") /\ calls = <<>>

\* return_model dispatched to ema_historical_return with its span, and
\* the estimator returned
ReturnModelWitness ==
    /\ Did("return_model")
    /\ call.method = "ema_historical_return"
    /\ "span" \in call.kw.given
    /\ result.exc = "none"
    /\ calls = <<"ema_historical_return">>

\* C5: an estimator call leaves the caller's tables as they were: the
\* table of assets and the market table have the same columns, labels and
\* values after the call, and no "mkt" column appears in the caller's table.
CallsLeaveInputsUnchanged ==
    pc = "returned" =>
        /\ call.op \in Estimators \cup {"return_model", "prices_from_returns"}
              => prices = arg
        /\ market = market_prices_of(call.kw)
        /\ "mkt" \notin Range(prices.columns)

\* C6: the index of the vector an estimator returns is the set of asset
\* labels of the table the caller originally built, on a fresh table and
\* on a table passed to earlier calls.
ReturnedIndexIsAssetSet ==
    (Estimation /\ result.exc = "none") =>
        /\ Range(result.val.index) = Range(original.columns)
        /\ Len(result.val.index) = Len(original.columns)

(***************************************************************************)
(* The formulas of the estimators, written out from their statement.       *)
(***************************************************************************)
GivenReturnsData == returns_data_of(call.kw)
GivenCompounding == compounding_of(call.kw)

\* r_t = p[t] / p[t-1] - 1 for every date but the first
StatedReturns(df) ==
    [df EXCEPT !.index = Tail(df.index),
               !.data = [t \in 1..(NRows(df) - 1) |->
                            [c \in 1..NCols(df) |->
                                Sub(Div(df.data[t + 1][c], df.data[t][c]), One)]]]

\* prod(1 + r_t) ** (frequency / n) - 1, or mean(r_t) * frequency, over
\* the n values of r that are not missing
StatedAnnualReturn(r, compounding, frequency) ==
    LET present == Filter(r, [t \in 1..Len(r) |-> ~IsNaN(r[t])])
        n == Len(present)
    IN  IF compounding
        THEN Shift(Power(SeqProd([t \in 1..n |-> Add(One, present[t])]),
                         frequency, n), Neg(One))
        ELSE Num(Mul(Div(SeqSum(present), Int2Rat(n)), Int2Rat(frequency)))

MeanCall ==
    /\ pc = "returned"
    /\ \/ call.op = "mean_historical_return"
       \/ call.op = "return_model" /\ call.method = "mean_historical_return"
    /\ result.exc = "none"

\* C8: mean_historical_return returns, per asset, prod(1 + r_t) **
\* (frequency / n) - 1 with compounding and mean(r_t) * frequency without,
\* where r is the returns of the prices, or the rows of the input as they
\* are with returns_data; prices 100, 110, 121 with frequency 2 give 0.21
\* and 0.20.
HistoricalMeanFormula ==
    MeanCall =>
        LET r == IF GivenReturnsData THEN arg ELSE StatedReturns(arg)
            f == frequency_of(call.kw, mean_frequency)
        IN  /\ result.val.index = arg.columns
            /\ \A c \in 1..NCols(arg) :
                  result.val.values[c] =
                      StatedAnnualReturn([t \in 1..NRows(r) |-> r.data[t][c]],
                                         GivenCompounding, f)
            /\ (arg = ExampleTable /\ ~GivenReturnsData /\ f = 2) =>
                  result.val.values =
                      IF GivenCompounding THEN <<Num(Rat(21, 100))>>
                      ELSE <<Num(Rat(1, 5))>>

\* the example: prices 100, 110, 121, frequency 2, compounding: 0.21
HistoricalMeanWitness ==
    /\ MeanCall
    /\ arg = ExampleTable
    /\ call.kw.given = {"returns_data", "compounding", "frequency"}
    /\ ~call.kw.returns_data
    /\ call.kw.compounding
    /\ call.kw.frequency = 2
    /\ result.val.values = <<Num(Rat(21, 100))>>

CapmCall ==
    /\ pc = "returned"
    /\ \/ call.op = "capm_return"
       \/ call.op = "return_model" /\ call.method = "capm_return"
    /\ result.exc = "none"

\* the sample covariance of two columns over the rows where both are present
StatedCov(x, y) ==
    LET keep == [t \in 1..Len(x) |-> ~IsNaN(x[t]) /\ ~IsNaN(y[t])]
        xs == Filter(x, keep)
        ys == Filter(y, keep)
        n == Len(xs)
        sxy == SeqSum([t \in 1..n |-> Mul(xs[t], ys[t])])
    IN  IF n < 2 THEN NaN
        ELSE Div(Sub(sxy, Div(Mul(SeqSum(xs), SeqSum(ys)), Int2Rat(n))),
                 Int2Rat(n - 1))

\* the asset columns of the table passed: every column but "mkt"
StatedAssets == {c \in 1..NCols(arg) : arg.columns[c] # "mkt"}

\* the market column: the row-wise mean of the returns over the columns
\* cols when no market is passed, else the market's returns joined by date
StatedMarket(r, cols) ==
    LET m == market_prices_of(call.kw)
        mr == IF GivenReturnsData THEN m ELSE StatedReturns(m)
    IN  IF m = None
        THEN [t \in 1..NRows(r) |->
                Div(SeqSum(Filter(r.data[t], [c \in 1..NCols(r) |-> c \in cols])),
                    Int2Rat(Cardinality(cols)))]
        ELSE [t \in 1..NRows(r) |->
                IF \E u \in 1..NRows(mr) : mr.index[u] = r.index[t]
                THEN mr.data[CHOOSE u \in 1..NRows(mr) :
                                mr.index[u] = r.index[t]][1]
                ELSE NaN]

StatedCapm(cols) ==
    LET r == IF GivenReturnsData THEN arg ELSE StatedReturns(arg)
        mkt == StatedMarket(r, cols)
        rf == risk_free_rate_of(call.kw)
        M == StatedAnnualReturn(mkt, GivenCompounding,
                                frequency_of(call.kw, capm_frequency))
        beta(c) == Div(StatedCov([t \in 1..NRows(r) |-> r.data[t][c]], mkt),
                       StatedCov(mkt, mkt))
    IN  /\ result.val.index = Remove(arg.columns, "mkt")
        /\ \A a \in 1..Len(result.val.index) :
              LET c == IndexOf(arg.columns, result.val.index[a])
              IN  result.val.values[a] =
                      Shift(Scale(Shift(M, Neg(rf)), beta(c)), rf)

\* C9: capm_return returns, for each asset a, risk_free_rate + beta_a *
\* (M - risk_free_rate), with beta_a = cov(a, market) / var(market), M the
\* annualised return of the market column, and the market column the
\* row-wise mean of the asset returns, or the market passed, joined by date.
CapmFormula ==
    (/\ pc = "returned"
     /\ \/ call.op = "capm_return"
        \/ call.op = "return_model" /\ call.method = "capm_return"
     /\ result.exc # "TypeError") =>
        /\ result.exc = "none"
        /\ StatedCapm(StatedAssets)

\* what holds of every call of capm_return that returns: the formula, with
\* the market column of a call without market being the row-wise mean over
\* every column of the table passed, a "mkt" column that an earlier call
\* left in it included
CapmFormulaOverAllColumns == CapmCall => StatedCapm(1..NCols(arg))

\* on a table without "mkt" column the call returns, and the formula holds
CapmFormulaOnFreshTable ==
    (Estimation /\ call.op = "capm_return" /\ "mkt" \notin Range(arg.columns)) =>
        result.exc = "none" /\ StatedCapm(StatedAssets)

\* the call was mean_historical_return with compounding and a frequency
CompoundingCall ==
    /\ MeanCall
    /\ GivenCompounding
    /\ "frequency" \in call.kw.given

\* what the same call returns for asset c without compounding
Arithmetic(c) ==
    mean_historical_return(arg, GivenReturnsData, FALSE,
                           call.kw.frequency).val.values[c].c0

\* the returns of asset c are not all equal
Volatile(c) ==
    LET r == IF GivenReturnsData THEN arg ELSE StatedReturns(arg)
    IN  \E t, u \in 1..NRows(r) : r.data[t][c] # r.data[u][c]

\* v <= q for an annualised value v = c0 + base ** (e / c), or v = c0, with
\* base >= 0, and a rational q
AnnualLeq(v, q) ==
    IF v.c1 = Zero THEN Leq(v.c0, q)
    ELSE LET rhs == Sub(q, v.c0)
         IN  rhs.n >= 0 /\ Leq(RatPow(v.base, v.e), RatPow(rhs, v.c))

\* C10, as claimed: for the same returns and frequency, the compounding
\* mean is at most the arithmetic mean whenever the returns are volatile.
CompoundingAtMostArithmetic ==
    CompoundingCall =>
        \A c \in 1..NCols(arg) :
            Volatile(c) => AnnualLeq(result.val.values[c], Arithmetic(c))

\* C10, amended: for the same returns, none below -1, and frequency = 1,
\* the compounding mean is at most the arithmetic mean whenever the returns
\* are volatile.
CompoundingAtMostArithmeticPerPeriod ==
    (CompoundingCall /\ call.kw.frequency = 1) =>
        \A c \in 1..NCols(arg) :
            Volatile(c) => AnnualLeq(result.val.values[c], Arithmetic(c))

\* a volatile asset at frequency 1 whose compounding mean, a fractional
\* power, is strictly below its arithmetic mean
CompoundingWitness ==
    /\ CompoundingCall
    /\ call.kw.frequency = 1
    /\ \E c \in 1..NCols(arg) :
          /\ Volatile(c)
          /\ result.val.values[c].c1 = One
          /\ AnnualLeq(result.val.values[c], Arithmetic(c))
          /\ result.val.values[c] # Num(Arithmetic(c))

=============================================================================
